---- MODULE Spec2Model ----
(***************************************************************************)
(* Model of lib/util.js, the package-private helpers of the PhantomJS      *)
(* installer: findValidPhantomJsBinary, checkPhantomjsVersion,             *)
(* writeLocationFile, getDownloadSpec, verifyChecksum, getTargetPlatform   *)
(* and getTargetArch.                                                      *)
(*                                                                         *)
(* JavaScript strings are tuples of one-character strings.  The fixed      *)
(* text fragments the code concatenates ('module.exports.location = ',     *)
(* the URL prefixes, the directory of the record) are single elements of   *)
(* such a tuple: no input of the model contains them.  JavaScript values   *)
(* that are not strings (true, false, undefined, null, error objects) are  *)
(* one-element tuples whose element starts with '#'.                       *)
(***************************************************************************)
EXTENDS Integers, Sequences, FiniteSets, TLC

VARIABLES env, process, file, moduleCache, call, obs, outcome, hist, orch

vars == <<env, process, file, moduleCache, call, obs, outcome, hist, orch>>

-----------------------------------------------------------------------------
(* Bounds and input alphabets *)

\* Longest location string handed to writeLocationFile.
MaxLocLen == 2

\* Characters of a location: a plain character, the backslash, the double quote.
LocChars == {"a", "\\", "\""}

Locations == UNION {[1..n -> LocChars] : n \in 0..MaxLocLen}

-----------------------------------------------------------------------------
(* JavaScript values *)

JsTrue == <<"#true">>
JsFalse == <<"#false">>
JsUndefined == <<"#undefined">>
JsNull == <<"#null">>

\* ToBoolean: false, undefined, null and the empty string are falsy.
Truthy(v) == v \notin {JsFalse, JsUndefined, JsNull, <<>>}

JsBool(b) == IF b THEN JsTrue ELSE JsFalse

Fulfilled(v) == [state |-> "fulfilled", value |-> v]
Rejected(e) == [state |-> "rejected", value |-> e]

-----------------------------------------------------------------------------
(* Strings *)

LowerChars == {"a", "b", "c", "d", "e", "f", "g", "h", "i", "j", "k", "l", "m",
               "n", "o", "p", "q", "r", "s", "t", "u", "v", "w", "x", "y", "z"}
UpperChars == {"A", "B", "C", "D", "E", "F", "G", "H", "I", "J", "K", "L", "M",
               "N", "O", "P", "Q", "R", "S", "T", "U", "V", "W", "X", "Y", "Z"}
DigitChars == {"0", "1", "2", "3", "4", "5", "6", "7", "8", "9"}

\* /^[a-zA-Z0-9]*$/.test(s)
AlnumOnly(s) == \A i \in 1..Len(s) : s[i] \in LowerChars \cup UpperChars \cup DigitChars

WhiteSpace == {" ", "\t", "\n", "\r"}

RECURSIVE TrimLeft(_)
TrimLeft(s) == IF s # <<>> /\ Head(s) \in WhiteSpace THEN TrimLeft(Tail(s)) ELSE s

RECURSIVE TrimRight(_)
TrimRight(s) ==
  IF s # <<>> /\ s[Len(s)] \in WhiteSpace THEN TrimRight(SubSeq(s, 1, Len(s) - 1)) ELSE s

\* String.prototype.trim
Trim(s) == TrimRight(TrimLeft(s))

\* A faulty variant of EscapeBackslashes: nothing is escaped.
EscapeBackslashes_None(s) == s

\* location.replace(/\\/g, '\\\\'): every backslash becomes two.
RECURSIVE EscapeBackslashes(_)
EscapeBackslashes(s) ==
  IF s = <<>> THEN <<>>
  ELSE (IF Head(s) = "\\" THEN <<"\\", "\\">> ELSE <<Head(s)>>) \o EscapeBackslashes(Tail(s))

-----------------------------------------------------------------------------
(* Target platform and architecture *)

linux == <<"l", "i", "n", "u", "x">>
darwin == <<"d", "a", "r", "w", "i", "n">>
win32 == <<"w", "i", "n", "3", "2">>
os_2 == <<"o", "s", "-", "2">>
x64 == <<"x", "6", "4">>
arm64 == <<"a", "r", "m", "6", "4">>
x86_64 == <<"x", "8", "6", "_", "6", "4">>

\* process.platform / process.arch of the host running the installer.
Hosts == {[platform |-> linux, arch |-> x64],
          [platform |-> linux, arch |-> arm64],
          [platform |-> darwin, arch |-> x64]}

\* PHANTOMJS_PLATFORM / PHANTOMJS_ARCH; the empty string stands for unset
\* (both are falsy in the || of getTargetPlatform and getTargetArch).
Environments == [PHANTOMJS_PLATFORM : {<<>>, win32, os_2},
                 PHANTOMJS_ARCH : {<<>>, x86_64}]

getTargetPlatform ==
  IF Truthy(env.PHANTOMJS_PLATFORM) THEN env.PHANTOMJS_PLATFORM ELSE process.platform

getTargetArch ==
  IF Truthy(env.PHANTOMJS_ARCH) THEN env.PHANTOMJS_ARCH ELSE process.arch

-----------------------------------------------------------------------------
(* The location record: lib/location.js *)

\* Directory of this module (__dirname) and the record's module path.
LibDir == <<"/pkg/lib">>
LocationModule == LibDir \o <<"/", "location">>
OtherModule == LibDir \o <<"/", "nowhere">>
LibPaths == {LocationModule, OtherModule}

LocationKey == "module.exports.location = "
PlatformKey == "module.exports.platform = "
ArchKey == "module.exports.arch = "

\* No file at all (require and stat fail with ENOENT).
NoFile == <<"#ENOENT">>

\* A faulty variant of RecordText: only the platform is tested against
\* /^[a-zA-Z0-9]*$/ before the platform and arch fields are written.
RecordText_PlatformOnly(location, platform, arch) ==
  LET escaped == IF platform = win32 THEN EscapeBackslashes(location) ELSE location
      contents == <<LocationKey, "\"">> \o escaped \o <<"\"", "\n">>
  IN IF AlnumOnly(platform)
     THEN contents \o <<PlatformKey, "\"">> \o platform \o <<"\"", "\n">>
                   \o <<ArchKey, "\"">> \o arch \o <<"\"", "\n">>
     ELSE contents

\* The text writeLocationFile builds for a location under a target.
RecordText(location, platform, arch) ==
  LET escaped == IF platform = win32 THEN EscapeBackslashes(location) ELSE location
      contents == <<LocationKey, "\"">> \o escaped \o <<"\"", "\n">>
  IN IF AlnumOnly(platform) /\ AlnumOnly(arch)
     THEN contents \o <<PlatformKey, "\"">> \o platform \o <<"\"", "\n">>
                   \o <<ArchKey, "\"">> \o arch \o <<"\"", "\n">>
     ELSE contents

\* A module that exports nothing.
NoExports == [location |-> JsUndefined, platform |-> JsUndefined, arch |-> JsUndefined]

\* The character an escape sequence \c stands for in a string literal: \n,
\* \t and \r are control characters, a character of LocChars is itself.
Unescape(c) ==
  CASE c = "n" -> "\n"
    [] c = "t" -> "\t"
    [] c = "r" -> "\r"
    [] OTHER -> c

\* The rest of a double-quoted string literal, from position i (after the
\* opening quote): its value and the position after the closing quote.
RECURSIVE ScanString(_, _, _)
ScanString(s, i, acc) ==
  IF i > Len(s) THEN [ok |-> FALSE, value |-> acc, next |-> i]
  ELSE IF s[i] = "\"" THEN [ok |-> TRUE, value |-> acc, next |-> i + 1]
  ELSE IF s[i] = "\n" THEN [ok |-> FALSE, value |-> acc, next |-> i]
  ELSE IF s[i] = "\\"
    THEN IF i + 1 > Len(s) THEN [ok |-> FALSE, value |-> acc, next |-> i]
         ELSE IF s[i + 1] = "\n" THEN ScanString(s, i + 2, acc)
         ELSE ScanString(s, i + 2, Append(acc, Unescape(s[i + 1])))
  ELSE ScanString(s, i + 1, Append(acc, s[i]))

\* Evaluation of the record's source text by the module loader, statement by
\* statement: `module.exports.<field> = "<literal>"` and a line end.  Over
\* LocChars no operator can follow a closed literal on its line, so any other
\* text after it is a SyntaxError, and a SyntaxError anywhere rejects the file.
RECURSIVE EvalStatements(_, _, _)
EvalStatements(s, i, exports) ==
  IF i > Len(s) THEN [threw |-> FALSE, exports |-> exports]
  ELSE IF s[i] \in {LocationKey, PlatformKey, ArchKey} /\ i < Len(s) /\ s[i + 1] = "\""
    THEN LET lit == ScanString(s, i + 2, <<>>)
             field == CASE s[i] = LocationKey -> "location"
                        [] s[i] = PlatformKey -> "platform"
                        [] OTHER -> "arch"
         IN IF ~lit.ok THEN [threw |-> TRUE, exports |-> NoExports]
            ELSE IF lit.next > Len(s)
              THEN [threw |-> FALSE, exports |-> [exports EXCEPT ![field] = lit.value]]
            ELSE IF s[lit.next] = "\n"
              THEN EvalStatements(s, lit.next + 1, [exports EXCEPT ![field] = lit.value])
            ELSE [threw |-> TRUE, exports |-> NoExports]
  ELSE [threw |-> TRUE, exports |-> NoExports]

\* Loading the record's file afresh, as a new process does.
LoadModule(contents) ==
  IF contents = NoFile THEN [threw |-> TRUE, exports |-> NoExports]
  ELSE EvalStatements(contents, 1, NoExports)

\* What is on disk at a module path.
ModuleFile(libPath) == IF libPath = LocationModule THEN file ELSE NoFile

NotLoaded == [path |-> <<>>, exports |-> NoExports]

\* require(libPath): a module loaded earlier in the process comes from the
\* module cache; a load that throws leaves nothing in the cache.
Require(libPath) ==
  IF moduleCache.path = libPath
  THEN [threw |-> FALSE, exports |-> moduleCache.exports, cache |-> moduleCache]
  ELSE LET m == LoadModule(ModuleFile(libPath))
       IN IF m.threw THEN [threw |-> TRUE, exports |-> NoExports, cache |-> moduleCache]
          ELSE [threw |-> FALSE, exports |-> m.exports,
                cache |-> [path |-> libPath, exports |-> m.exports]]

\* path.resolve(path.dirname(libPath), location) for a relative location
\* without separators or dot segments (LocChars has none).
ResolveLocation(libPath, location) ==
  SubSeq(libPath, 1, Len(libPath) - 2) \o <<"/">> \o location

-----------------------------------------------------------------------------
(* checkPhantomjsVersion *)

\* helper.version, the version this package installs.
Version == <<"2", ".", "1", ".", "1">>

\* What running `phantomPath --version` gives: an error (missing or
\* non-executable file, non-zero exit) or the standard output.
ExecFailed == [err |-> TRUE, stdout |-> <<>>]
Stdouts == {Version \o <<"\n">>,
            <<" ">> \o Version \o <<"\r", "\n">>,
            <<"2", ".", "1", ".", "0", "\n">>,
            <<>>}
ExecResults == {ExecFailed} \cup [err : {FALSE}, stdout : Stdouts]

\* kew.nfcall(cp.execFile, phantomPath, ['--version'])
ExecVersion(exec) ==
  IF exec.err THEN Rejected(<<"#ExecError">>) ELSE Fulfilled(exec.stdout)

\* A faulty variant of VersionMatches: the output is compared untrimmed.
VersionMatches_Untrimmed(stdout) == Fulfilled(JsBool(Version = stdout))

\* The then-callback: compare the trimmed output with helper.version.
VersionMatches(stdout) == Fulfilled(JsBool(Version = Trim(stdout)))

checkPhantomjsVersion(phantomPath, exec) ==
  LET ran == ExecVersion(exec)
      matched == IF ran.state = "fulfilled" THEN VersionMatches(ran.value) ELSE ran
  IN IF matched.state = "rejected" THEN Fulfilled(JsFalse) ELSE matched

-----------------------------------------------------------------------------
(* findValidPhantomJsBinary *)

\* A faulty variant of ProbeRecord: the record's arch is not compared.
ProbeRecord_IgnoresArch(libPath, statOk, exec) ==
  LET m == Require(libPath)
      libModule == m.exports
  IN IF m.threw THEN Rejected(<<"#LoadError">>)
     ELSE IF Truthy(libModule.location) /\ getTargetPlatform = libModule.platform
       THEN LET resolvedLocation == ResolveLocation(libPath, libModule.location)
            IN IF ~statOk THEN Rejected(<<"#ENOENT">>)
               ELSE LET matches == checkPhantomjsVersion(resolvedLocation, exec)
                    IN IF matches.state # "fulfilled" THEN matches
                       ELSE IF Truthy(matches.value) THEN Fulfilled(resolvedLocation)
                       ELSE Fulfilled(JsUndefined)
       ELSE Fulfilled(JsFalse)

\* The function handed to kew.fcall: a throw (require, statSync) rejects.
\* statOk says whether fs.statSync finds the resolved path.
ProbeRecord(libPath, statOk, exec) ==
  LET m == Require(libPath)
      libModule == m.exports
  IN IF m.threw THEN Rejected(<<"#LoadError">>)
     ELSE IF Truthy(libModule.location)
             /\ getTargetPlatform = libModule.platform
             /\ getTargetArch = libModule.arch
       THEN LET resolvedLocation == ResolveLocation(libPath, libModule.location)
            IN IF ~statOk THEN Rejected(<<"#ENOENT">>)
               ELSE LET matches == checkPhantomjsVersion(resolvedLocation, exec)
                    IN IF matches.state # "fulfilled" THEN matches
                       ELSE IF Truthy(matches.value) THEN Fulfilled(resolvedLocation)
                       ELSE Fulfilled(JsUndefined)
       ELSE Fulfilled(JsFalse)

findValidPhantomJsBinary(libPath, statOk, exec) ==
  LET probed == ProbeRecord(libPath, statOk, exec)
  IN IF probed.state = "rejected" THEN Fulfilled(JsFalse) ELSE probed

-----------------------------------------------------------------------------
(* writeLocationFile *)

\* How fs.writeFileSync ends: the file is written; opening it fails and the
\* old file stays; or the file is truncated and the write of the text fails.
WriteResults == {"ok", "EACCES", "ENOSPC"}

LocationFileContents(location) == RecordText(location, getTargetPlatform, getTargetArch)

\* A faulty variant of writeLocationFile: a failed write is swallowed.
writeLocationFile_Swallows(location, fsResult) ==
  CASE fsResult = "ok" -> [threw |-> FALSE, file |-> LocationFileContents(location)]
    [] fsResult = "EACCES" -> [threw |-> FALSE, file |-> file]
    [] OTHER -> [threw |-> FALSE, file |-> <<>>]

\* The file afterwards and whether the call threw.
writeLocationFile(location, fsResult) ==
  LET contents == LocationFileContents(location)
  IN CASE fsResult = "ok" -> [threw |-> FALSE, file |-> contents]
       [] fsResult = "EACCES" -> [threw |-> TRUE, file |-> file]
       [] OTHER -> [threw |-> TRUE, file |-> <<>>]

-----------------------------------------------------------------------------
(* getDownloadSpec *)

LinuxArm64Checksum ==
  <<"e", "a", "6", "7", "1", "a", "9", "c", "2", "3", "d", "7", "a", "0", "c", "d",
    "c", "7", "2", "9", "2", "8", "8", "9", "e", "2", "a", "c", "2", "d", "2", "4",
    "3", "6", "5", "f", "3", "a", "9", "9", "d", "1", "0", "6", "3", "6", "2", "a",
    "7", "2", "7", "3", "4", "6", "a", "f", "3", "b", "f", "a", "9", "0", "1", "7">>

DarwinChecksum ==
  <<"5", "3", "8", "c", "f", "4", "8", "8", "2", "1", "9", "a", "b", "2", "7", "e",
    "3", "0", "9", "e", "a", "f", "c", "6", "2", "9", "e", "2", "b", "c", "e", "e",
    "9", "9", "7", "6", "9", "9", "0", "f", "e", "9", "0", "b", "1", "e", "c", "3",
    "3", "4", "f", "5", "4", "1", "7", "7", "9", "1", "5", "0", "f", "8", "c", "1">>

NullSpec == [null |-> TRUE, url |-> <<>>, checksum |-> <<>>]

\* A faulty variant of getDownloadSpec: every linux target gets the arm64 build.
getDownloadSpec_AnyLinux ==
  IF getTargetPlatform = linux
  THEN [null |-> FALSE,
        url |-> <<"http://10.0.6.161/phantomjs-">> \o Version \o <<"-linux-aarch64.zip">>,
        checksum |-> LinuxArm64Checksum]
  ELSE IF getTargetPlatform = darwin
  THEN [null |-> FALSE,
        url |-> <<"https://github.com/Medium/phantomjs/releases/download/v2.1.1/phantomjs-">>
                \o Version \o <<"-macosx.zip">>,
        checksum |-> DarwinChecksum]
  ELSE NullSpec

getDownloadSpec ==
  IF getTargetPlatform = linux /\ getTargetArch = arm64
  THEN [null |-> FALSE,
        url |-> <<"http://10.0.6.161/phantomjs-">> \o Version \o <<"-linux-aarch64.zip">>,
        checksum |-> LinuxArm64Checksum]
  ELSE IF getTargetPlatform = darwin
  THEN [null |-> FALSE,
        url |-> <<"https://github.com/Medium/phantomjs/releases/download/v2.1.1/phantomjs-">>
                \o Version \o <<"-macosx.zip">>,
        checksum |-> DarwinChecksum]
  ELSE NullSpec

-----------------------------------------------------------------------------
(* verifyChecksum *)

\* Contents of downloaded files: the two released archives (opaque), and
\* the byte strings "", "a" and "b".
LinuxArchive == <<"#phantomjs-2.1.1-linux-aarch64.zip">>
DarwinArchive == <<"#phantomjs-2.1.1-macosx.zip">>

Sha256OfEmpty ==
  <<"e", "3", "b", "0", "c", "4", "4", "2", "9", "8", "f", "c", "1", "c", "1", "4",
    "9", "a", "f", "b", "f", "4", "c", "8", "9", "9", "6", "f", "b", "9", "2", "4",
    "2", "7", "a", "e", "4", "1", "e", "4", "6", "4", "9", "b", "9", "3", "4", "c",
    "a", "4", "9", "5", "9", "9", "1", "b", "7", "8", "5", "2", "b", "8", "5", "5">>

Sha256OfA ==
  <<"c", "a", "9", "7", "8", "1", "1", "2", "c", "a", "1", "b", "b", "d", "c", "a",
    "f", "a", "c", "2", "3", "1", "b", "3", "9", "a", "2", "3", "d", "c", "4", "d",
    "a", "7", "8", "6", "e", "f", "f", "8", "1", "4", "7", "c", "4", "e", "7", "2",
    "b", "9", "8", "0", "7", "7", "8", "5", "a", "f", "e", "e", "4", "8", "b", "b">>

Sha256OfB ==
  <<"3", "e", "2", "3", "e", "8", "1", "6", "0", "0", "3", "9", "5", "9", "4", "a",
    "3", "3", "8", "9", "4", "f", "6", "5", "6", "4", "e", "1", "b", "1", "3", "4",
    "8", "b", "b", "d", "7", "a", "0", "0", "8", "8", "d", "4", "2", "c", "4", "a",
    "c", "b", "7", "3", "e", "e", "a", "e", "d", "5", "9", "c", "0", "0", "9", "d">>

\* The lower-case hexadecimal SHA-256 digest hasha computes.
Sha256(contents) ==
  CASE contents = LinuxArchive -> LinuxArm64Checksum
    [] contents = DarwinArchive -> DarwinChecksum
    [] contents = <<>> -> Sha256OfEmpty
    [] contents = <<"a">> -> Sha256OfA
    [] contents = <<"b">> -> Sha256OfB

\* The download directory: file name -> contents; any other name is unreadable.
DownloadNames == {<<"linux.zip">>, <<"macosx.zip">>, <<"empty.zip">>,
                  <<"a.zip">>, <<"b.zip">>, <<"missing.zip">>}
Readable(fileName) == fileName # <<"missing.zip">>
DownloadContents(fileName) ==
  CASE fileName = <<"linux.zip">> -> LinuxArchive
    [] fileName = <<"macosx.zip">> -> DarwinArchive
    [] fileName = <<"empty.zip">> -> <<>>
    [] fileName = <<"a.zip">> -> <<"a">>
    [] fileName = <<"b.zip">> -> <<"b">>

\* hasha.fromFile(fileName, {algorithm: 'sha256'})
HashFromFile(fileName) ==
  IF Readable(fileName) THEN Fulfilled(Sha256(DownloadContents(fileName)))
  ELSE Rejected(<<"#ENOENT">>)

\* A faulty variant of ChecksumMatches: an empty checksum passes unverified.
ChecksumMatches_EmptyPasses(checksum, hash) ==
  Fulfilled(JsBool(checksum = <<>> \/ checksum = hash))

\* The then-callback: checksum == hash.
ChecksumMatches(checksum, hash) == Fulfilled(JsBool(checksum = hash))

\* A faulty variant of verifyChecksum: no fail handler, a read error rejects.
verifyChecksum_NoFailHandler(fileName, checksum) ==
  LET hashed == HashFromFile(fileName)
  IN IF hashed.state = "fulfilled" THEN ChecksumMatches(checksum, hashed.value)
     ELSE hashed

\* A faulty variant of verifyChecksum: true as soon as the file could be hashed.
verifyChecksum_IgnoresResult(fileName, checksum) ==
  LET hashed == HashFromFile(fileName)
  IN IF hashed.state = "fulfilled" THEN Fulfilled(JsTrue) ELSE Fulfilled(JsFalse)

verifyChecksum(fileName, checksum) ==
  LET hashed == HashFromFile(fileName)
      compared == IF hashed.state = "fulfilled" THEN ChecksumMatches(checksum, hashed.value)
                  ELSE hashed
  IN IF compared.state = "rejected" THEN Fulfilled(JsFalse) ELSE compared

-----------------------------------------------------------------------------
(* State *)

\* env, process : PHANTOMJS_PLATFORM/PHANTOMJS_ARCH and process.platform/arch
\* file         : the text of lib/location.js, or NoFile
\* moduleCache  : the record module this process has loaded, if any
\* call         : the last call of a helper: its name and arguments
\* obs          : what the file system and the subprocess answered in that call
\* outcome      : how that call ended
\* hist         : the location last written by this process, and whether the
\*                record module was already loaded when it was written
\* orch         : the installer run that drives the helpers

None == <<"#none">>

NoCall == [op |-> "none", a1 |-> <<>>, a2 |-> <<>>]
NoObs == [statOk |-> FALSE, exec |-> ExecFailed, fs |-> "none"]
NoOutcome == [kind |-> "none", value |-> JsUndefined, spec |-> NullSpec]
NoHist == [written |-> None, loadedBefore |-> FALSE]

Settled(p) == [kind |-> p.state, value |-> p.value, spec |-> NullSpec]

NewRun == [state |-> "UNCHECKED", spec |-> NullSpec, artifact |-> None,
           exec |-> ExecFailed, checksumOk |-> FALSE, versionOk |-> FALSE,
           written |-> FALSE]

\* The targets an earlier install may have run under.
Targets ==
  {<<IF Truthy(e.PHANTOMJS_PLATFORM) THEN e.PHANTOMJS_PLATFORM ELSE h.platform,
     IF Truthy(e.PHANTOMJS_ARCH) THEN e.PHANTOMJS_ARCH ELSE h.arch>> :
     e \in Environments, h \in Hosts}

\* lib/location.js when the process starts: absent, cut to nothing by a
\* failed write, or written by an earlier install under some target, for a
\* binary at location "a" or at a location that is a double quote (a record
\* that does not parse).
InitialLocations == {<<"a">>, <<"\"">>}
InitialFiles ==
  {NoFile, <<>>} \cup {RecordText(l, t[1], t[2]) : l \in InitialLocations, t \in Targets}

\* Any host, any environment.
Init ==
  /\ env \in Environments
  /\ process \in Hosts
  /\ file \in InitialFiles
  /\ moduleCache = NotLoaded
  /\ call = NoCall
  /\ obs = NoObs
  /\ outcome = NoOutcome
  /\ hist = NoHist
  /\ orch = NewRun

-----------------------------------------------------------------------------
(* Calls of the helpers *)

\* The answers of the world to a probe: without a record that names a
\* location there is no path to find, and a missing file cannot be run.
ProbeWorld(libPath, statOk, exec) ==
  LET m == Require(libPath)
  IN /\ (m.threw \/ ~Truthy(m.exports.location)) => ~statOk
     /\ ~statOk => exec = ExecFailed

FindValidPhantomJsBinary ==
  \E libPath \in LibPaths, statOk \in BOOLEAN, exec \in ExecResults :
    /\ ProbeWorld(libPath, statOk, exec)
    /\ moduleCache' = Require(libPath).cache
    /\ call' = [op |-> "findValidPhantomJsBinary", a1 |-> libPath, a2 |-> <<>>]
    /\ obs' = [statOk |-> statOk, exec |-> exec, fs |-> "none"]
    /\ outcome' = Settled(findValidPhantomJsBinary(libPath, statOk, exec))
    /\ UNCHANGED <<env, process, file, hist, orch>>

WriteLocationFile ==
  \E location \in Locations, fsResult \in WriteResults :
    LET r == writeLocationFile(location, fsResult)
    IN /\ file' = r.file
       /\ call' = [op |-> "writeLocationFile", a1 |-> location, a2 |-> <<>>]
       /\ obs' = [statOk |-> FALSE, exec |-> ExecFailed, fs |-> fsResult]
       /\ outcome' = [kind |-> IF r.threw THEN "threw" ELSE "returned",
                      value |-> JsUndefined, spec |-> NullSpec]
       /\ hist' = IF fsResult = "ok"
                  THEN [written |-> location,
                        loadedBefore |-> moduleCache.path = LocationModule]
                  ELSE IF fsResult = "EACCES" THEN hist
                  ELSE NoHist
       /\ UNCHANGED <<env, process, moduleCache, orch>>

\* Paths a caller asks checkPhantomjsVersion about.
PhantomPaths == {ResolveLocation(LocationModule, <<"a">>), <<"/usr/bin/phantomjs">>}

CheckPhantomjsVersion ==
  \E phantomPath \in PhantomPaths, exec \in ExecResults :
    /\ call' = [op |-> "checkPhantomjsVersion", a1 |-> phantomPath, a2 |-> <<>>]
    /\ obs' = [statOk |-> FALSE, exec |-> exec, fs |-> "none"]
    /\ outcome' = Settled(checkPhantomjsVersion(phantomPath, exec))
    /\ UNCHANGED <<env, process, file, moduleCache, hist, orch>>

UpperHex(c) ==
  CASE c = "a" -> "A" [] c = "b" -> "B" [] c = "c" -> "C"
    [] c = "d" -> "D" [] c = "e" -> "E" [] c = "f" -> "F" [] OTHER -> c

ToUpperCase(s) == [i \in 1..Len(s) |-> UpperHex(s[i])]

\* Checksums a caller passes: the two of the table, the digest of "a" in
\* lower and in upper case, and the empty string.
Checksums == {LinuxArm64Checksum, DarwinChecksum, Sha256OfA, ToUpperCase(Sha256OfA), <<>>}

VerifyChecksum ==
  \E fileName \in DownloadNames, checksum \in Checksums :
    /\ call' = [op |-> "verifyChecksum", a1 |-> fileName, a2 |-> checksum]
    /\ obs' = NoObs
    /\ outcome' = Settled(verifyChecksum(fileName, checksum))
    /\ UNCHANGED <<env, process, file, moduleCache, hist, orch>>

GetDownloadSpec ==
  /\ call' = [op |-> "getDownloadSpec", a1 |-> <<>>, a2 |-> <<>>]
  /\ obs' = NoObs
  /\ outcome' = [kind |-> "returned", value |-> JsUndefined, spec |-> getDownloadSpec]
  /\ UNCHANGED <<env, process, file, moduleCache, hist, orch>>

\* The location record: a process probes it any number of times and, as the
\* installer does, writes it once (a write that failed may be tried again).
Next ==
  \/ FindValidPhantomJsBinary
  \/ (hist.written = None /\ WriteLocationFile)

Spec == Init /\ [][Next]_vars

\* The operations that read and verify, in any order, on a record left by
\* an earlier install.
VerifyNext ==
  \/ FindValidPhantomJsBinary
  \/ CheckPhantomjsVersion
  \/ VerifyChecksum
  \/ GetDownloadSpec

VerifySpec == Init /\ [][VerifyNext]_vars

-----------------------------------------------------------------------------
(* The installer run that drives the helpers:                              *)
(* probe -> download spec -> fetch -> checksum -> version -> record.       *)

\* Where the installer puts the binary it downloaded, relative to lib/.
InstallLocation == <<"a">>

\* probe: a valid binary ends the run.
RunProbe ==
  \E statOk \in BOOLEAN, exec \in ExecResults :
    LET found == findValidPhantomJsBinary(LocationModule, statOk, exec)
    IN /\ orch.state = "UNCHECKED"
       /\ ProbeWorld(LocationModule, statOk, exec)
       /\ moduleCache' = Require(LocationModule).cache
       /\ call' = [op |-> "findValidPhantomJsBinary", a1 |-> LocationModule, a2 |-> <<>>]
       /\ obs' = [statOk |-> statOk, exec |-> exec, fs |-> "none"]
       /\ outcome' = Settled(found)
       /\ orch' = [orch EXCEPT !.state = IF Truthy(found.value) THEN "VALID" ELSE "INVALID"]
       /\ UNCHANGED <<env, process, file, hist>>

\* download spec: none for this target ends the run.
RunUnsupported ==
  /\ orch.state = "INVALID"
  /\ getDownloadSpec.null
  /\ call' = [op |-> "getDownloadSpec", a1 |-> <<>>, a2 |-> <<>>]
  /\ obs' = NoObs
  /\ outcome' = [kind |-> "returned", value |-> JsUndefined, spec |-> getDownloadSpec]
  /\ orch' = [orch EXCEPT !.state = "UNSUPPORTED"]
  /\ UNCHANGED <<env, process, file, moduleCache, hist>>

\* download spec, then the fetch: some file arrives, and the binary
\* extracted from it behaves in some way when run.
RunFetch ==
  \E artifact \in DownloadNames, exec \in ExecResults :
    /\ orch.state = "INVALID"
    /\ ~getDownloadSpec.null
    /\ call' = [op |-> "getDownloadSpec", a1 |-> <<>>, a2 |-> <<>>]
    /\ obs' = NoObs
    /\ outcome' = [kind |-> "returned", value |-> JsUndefined, spec |-> getDownloadSpec]
    /\ orch' = [orch EXCEPT !.state = "DOWNLOADING", !.spec = getDownloadSpec,
                            !.artifact = artifact, !.exec = exec]
    /\ UNCHANGED <<env, process, file, moduleCache, hist>>

RunChecksum ==
  LET verified == verifyChecksum(orch.artifact, orch.spec.checksum)
  IN /\ orch.state = "DOWNLOADING"
     /\ call' = [op |-> "verifyChecksum", a1 |-> orch.artifact, a2 |-> orch.spec.checksum]
     /\ obs' = NoObs
     /\ outcome' = Settled(verified)
     /\ orch' = IF Truthy(verified.value)
                THEN [orch EXCEPT !.state = "CHECKSUM_OK", !.checksumOk = TRUE]
                ELSE [orch EXCEPT !.state = "VERIFICATION_FAILED"]
     /\ UNCHANGED <<env, process, file, moduleCache, hist>>

RunVersion ==
  LET phantomPath == ResolveLocation(LocationModule, InstallLocation)
      matches == checkPhantomjsVersion(phantomPath, orch.exec)
  IN /\ orch.state = "CHECKSUM_OK"
     /\ call' = [op |-> "checkPhantomjsVersion", a1 |-> phantomPath, a2 |-> <<>>]
     /\ obs' = [statOk |-> FALSE, exec |-> orch.exec, fs |-> "none"]
     /\ outcome' = Settled(matches)
     /\ orch' = IF Truthy(matches.value)
                THEN [orch EXCEPT !.state = "VERIFIED", !.versionOk = TRUE]
                ELSE [orch EXCEPT !.state = "VERIFICATION_FAILED"]
     /\ UNCHANGED <<env, process, file, moduleCache, hist>>

\* record: a write that throws ends the run with that error.
RunWrite ==
  \E fsResult \in WriteResults :
    LET r == writeLocationFile(InstallLocation, fsResult)
    IN /\ orch.state = "VERIFIED"
       /\ file' = r.file
       /\ call' = [op |-> "writeLocationFile", a1 |-> InstallLocation, a2 |-> <<>>]
       /\ obs' = [statOk |-> FALSE, exec |-> ExecFailed, fs |-> fsResult]
       /\ outcome' = [kind |-> IF r.threw THEN "threw" ELSE "returned",
                      value |-> JsUndefined, spec |-> NullSpec]
       /\ hist' = IF fsResult = "ok"
                  THEN [written |-> InstallLocation,
                        loadedBefore |-> moduleCache.path = LocationModule]
                  ELSE IF fsResult = "EACCES" THEN hist
                  ELSE NoHist
       /\ orch' = IF r.threw THEN [orch EXCEPT !.state = "WRITE_ERROR"]
                  ELSE [orch EXCEPT !.state = "WRITTEN", !.written = TRUE]
       /\ UNCHANGED <<env, process, moduleCache>>

RunNext ==
  \/ RunProbe
  \/ RunUnsupported
  \/ RunFetch
  \/ RunChecksum
  \/ RunVersion
  \/ RunWrite

RunSpec == Init /\ [][RunNext]_vars

-----------------------------------------------------------------------------
(* Properties of the location record (under Spec) *)

HasChar(s, c) == \E i \in 1..Len(s) : s[i] = c

HasKey(text, key) == \E i \in 1..Len(text) : text[i] = key

\* The output, with the white space around it removed, is the version.
TrimmedIs(stdout, v) ==
  \E k \in 0..Len(stdout) :
    /\ k + Len(v) <= Len(stdout)
    /\ SubSeq(stdout, k + 1, k + Len(v)) = v
    /\ \A i \in 1..k : stdout[i] \in WhiteSpace
    /\ \A i \in (k + Len(v) + 1)..Len(stdout) : stdout[i] \in WhiteSpace

\* The subprocess ran, exited with zero and printed the expected version.
ReportsVersion(exec) == ~exec.err /\ TrimmedIs(exec.stdout, Version)

Probed == call.op = "findValidPhantomJsBinary"
Wrote == call.op = "writeLocationFile"

\* After a probe the record is in the module cache exactly when require
\* gave it (from the cache or from the file).
RecordLoaded == moduleCache.path = call.a1

\* C1: findValidPhantomJsBinary resolves to the location resolved against
\* the directory of libPath exactly when the record loads, declares a
\* non-empty location, its platform and arch are the target's, the resolved
\* path exists and checkPhantomjsVersion yields true on it; in every other
\* case it resolves to a falsy value.
C1_ProbeResolvesExactlyValidRecord ==
  Probed =>
    LET libModule == moduleCache.exports
        resolved == ResolveLocation(call.a1, libModule.location)
        valid == /\ RecordLoaded
                 /\ libModule.location \notin {JsUndefined, <<>>}
                 /\ libModule.platform = getTargetPlatform
                 /\ libModule.arch = getTargetArch
                 /\ obs.statOk
                 /\ checkPhantomjsVersion(resolved, obs.exec) = Fulfilled(JsTrue)
    IN /\ outcome.kind = "fulfilled"
       /\ IF valid THEN outcome.value = resolved ELSE ~Truthy(outcome.value)

\* A probe that resolved to the path of a valid binary.
C1_Witness ==
  /\ Probed
  /\ RecordLoaded
  /\ outcome.value = ResolveLocation(call.a1, moduleCache.exports.location)

\* A location the record carries unchanged: not empty, no double quote,
\* and no backslash unless the target platform is win32 (where it is escaped).
ValidLocation(location) ==
  /\ location # <<>>
  /\ ~HasChar(location, "\"")
  /\ getTargetPlatform = win32 \/ ~HasChar(location, "\\")

\* The binary of the written location L exists and reports the expected
\* version: whenever the probe looked at L's path, it found the file and the
\* subprocess reported the version.
BinaryOfWrittenIsGood ==
  LET libModule == moduleCache.exports
  IN (/\ RecordLoaded
      /\ Truthy(libModule.location)
      /\ ResolveLocation(call.a1, libModule.location)
           = ResolveLocation(LocationModule, hist.written))
     => (obs.statOk /\ ReportsVersion(obs.exec))

WroteThenProbed ==
  /\ Probed
  /\ call.a1 = LocationModule
  /\ hist.written # None
  /\ ValidLocation(hist.written)
  /\ BinaryOfWrittenIsGood

RoundTrips == outcome = Settled(Fulfilled(ResolveLocation(LocationModule, hist.written)))

\* C2 as stated: for every target and every valid location L whose binary
\* exists and reports the expected version, writeLocationFile(L) and then
\* findValidPhantomJsBinary on the written record resolves to L's path.
C2_RoundTripEveryTarget == WroteThenProbed => RoundTrips

\* C2 amended: the same for every target whose platform and arch are
\* alphanumeric, when the process has not loaded the record before it wrote it.
C2_RoundTripAlnumTargetFreshModule ==
  (/\ WroteThenProbed
   /\ AlnumOnly(getTargetPlatform)
   /\ AlnumOnly(getTargetArch)
   /\ ~hist.loadedBefore)
  => RoundTrips

\* A round trip under win32 of a location with a backslash.
C2_Witness ==
  /\ WroteThenProbed
  /\ ~hist.loadedBefore
  /\ getTargetPlatform = win32
  /\ HasChar(hist.written, "\\")
  /\ RoundTrips

\* C5: a failed write of the record reaches the caller as an error, and a
\* call that returns normally has persisted the record.
C5_WriteFailurePropagates ==
  Wrote =>
    /\ (obs.fs # "ok") <=> (outcome.kind = "threw")
    /\ outcome.kind \in {"threw", "returned"}
    /\ outcome.kind = "returned" => file = LocationFileContents(call.a1)

\* A write that failed and threw.
C5_Witness == Wrote /\ obs.fs = "ENOSPC" /\ outcome.kind = "threw"

\* C6: the written record always has the location field; it has the
\* platform and arch fields exactly when the target platform and the target
\* arch are both alphanumeric, and neither of them otherwise.
C6_FieldsWritten ==
  (Wrote /\ outcome.kind = "returned") =>
    LET both == AlnumOnly(getTargetPlatform) /\ AlnumOnly(getTargetArch)
    IN /\ SubSeq(file, 1, 2) = <<LocationKey, "\"">>
       /\ HasKey(file, PlatformKey) <=> both
       /\ HasKey(file, ArchKey) <=> both

\* A record written without the platform and arch fields because only the
\* arch is not alphanumeric.
C6_Witness ==
  /\ Wrote
  /\ outcome.kind = "returned"
  /\ AlnumOnly(getTargetPlatform)
  /\ ~AlnumOnly(getTargetArch)
  /\ ~HasKey(file, PlatformKey)

\* C7: under win32, for every location that contains a backslash, the
\* written record, loaded afresh, gives the original location.
C7_WindowsLocationReloads ==
  (/\ Wrote
   /\ outcome.kind = "returned"
   /\ getTargetPlatform = win32
   /\ HasChar(call.a1, "\\"))
  => LET m == LoadModule(file)
     IN ~m.threw /\ m.exports.location = call.a1

-----------------------------------------------------------------------------
(* Properties of the verifying operations (under VerifySpec) *)

CheckedVersion == call.op = "checkPhantomjsVersion"
VerifiedChecksum == call.op = "verifyChecksum"
GotDownloadSpec == call.op = "getDownloadSpec"

\* C4: findValidPhantomJsBinary, checkPhantomjsVersion and verifyChecksum
\* never reject or throw; when the record does not load, the stat fails, the
\* subprocess fails or the file cannot be read, they fulfil with a falsy value.
C4_VerificationNeverPropagates ==
  /\ (Probed \/ CheckedVersion \/ VerifiedChecksum) => outcome.kind = "fulfilled"
  /\ (Probed /\ (~RecordLoaded \/ ~obs.statOk \/ obs.exec.err)) => ~Truthy(outcome.value)
  /\ (CheckedVersion /\ obs.exec.err) => ~Truthy(outcome.value)
  /\ (VerifiedChecksum /\ ~Readable(call.a1)) => ~Truthy(outcome.value)

\* A probe of a record that is there and does not parse, fulfilled with false.
C4_Witness ==
  /\ Probed
  /\ call.a1 = LocationModule
  /\ file # NoFile
  /\ ~RecordLoaded
  /\ outcome = Settled(Fulfilled(JsFalse))

\* C8: checkPhantomjsVersion resolves to true exactly when the subprocess
\* succeeds and its trimmed output is the expected version, else to false.
C8_VersionCheckExact ==
  CheckedVersion =>
    outcome = Settled(Fulfilled(JsBool(ReportsVersion(obs.exec))))

\* A version check that passed on output with white space around the version.
C8_Witness ==
  /\ CheckedVersion
  /\ obs.exec.stdout # Version
  /\ outcome.value = JsTrue

\* C9: verifyChecksum resolves to true if and only if the SHA-256 digest of
\* the file's contents equals the checksum; where it is true, it is false
\* for the same checksum on every file whose contents have another digest.
C9_ChecksumIffDigestEqual ==
  VerifiedChecksum =>
    LET equal == Readable(call.a1) /\ Sha256(DownloadContents(call.a1)) = call.a2
    IN /\ outcome = Settled(Fulfilled(JsBool(equal)))
       /\ equal =>
            \A other \in DownloadNames :
              (/\ Readable(other)
               /\ Sha256(DownloadContents(other)) # Sha256(DownloadContents(call.a1)))
              => verifyChecksum(other, call.a2) = Fulfilled(JsFalse)

\* A verification that passed.
C9_Witness == VerifiedChecksum /\ outcome.value = JsTrue

HexChars == DigitChars \cup {"a", "b", "c", "d", "e", "f", "A", "B", "C", "D", "E", "F"}

\* The version occurs in the URL.
EmbedsVersion(url) ==
  \E k \in 0..Len(url) :
    k + Len(Version) <= Len(url) /\ SubSeq(url, k + 1, k + Len(Version)) = Version

\* The targets with a download: linux on arm64, and darwin on any arch.
Supported == (getTargetPlatform = linux /\ getTargetArch = arm64) \/ getTargetPlatform = darwin

\* C10: for a supported target getDownloadSpec returns a non-empty URL that
\* embeds the version and a checksum of 64 hexadecimal characters; for any
\* other target it returns null.
C10_DownloadSpecBySupport ==
  GotDownloadSpec =>
    IF Supported
    THEN /\ ~outcome.spec.null
         /\ outcome.spec.url # <<>>
         /\ EmbedsVersion(outcome.spec.url)
         /\ Len(outcome.spec.checksum) = 64
         /\ \A i \in 1..Len(outcome.spec.checksum) : outcome.spec.checksum[i] \in HexChars
    ELSE outcome.spec = NullSpec

\* The download spec of linux on arm64.
C10_Witness ==
  /\ GotDownloadSpec
  /\ getTargetPlatform = linux
  /\ ~outcome.spec.null

-----------------------------------------------------------------------------
(* Properties of the installer run (under RunSpec) *)

RunningStates == {"UNCHECKED", "INVALID", "DOWNLOADING", "CHECKSUM_OK", "VERIFIED"}

RunEnded == orch.state \notin RunningStates

\* The record is written only after both verifications returned true for
\* the downloaded file, which then has the expected digest and version; a
\* failed verification or an unsupported target ends the run in failure,
\* nothing written.
WrittenOnlyVerified ==
  /\ orch.written =>
       /\ orch.checksumOk /\ orch.versionOk
       /\ Sha256(DownloadContents(orch.artifact)) = orch.spec.checksum
       /\ ReportsVersion(orch.exec)
  /\ orch.state \in {"VERIFICATION_FAILED", "UNSUPPORTED"} =>
       ~orch.written /\ hist.written = None
  /\ (RunEnded /\ orch.artifact # None /\ ~(orch.checksumOk /\ orch.versionOk)) =>
       orch.state = "VERIFICATION_FAILED"
  /\ (RunEnded /\ getDownloadSpec.null /\ orch.state # "VALID") =>
       orch.state = "UNSUPPORTED"

\* C3 as stated: the above, and every run ends in VALID, UNSUPPORTED, WRITTEN
\* or VERIFICATION_FAILED.
C3_RunEndsInFourStates ==
  /\ WrittenOnlyVerified
  /\ RunEnded => orch.state \in {"VALID", "UNSUPPORTED", "WRITTEN", "VERIFICATION_FAILED"}

\* C3 amended: the above, and every run ends in VALID, UNSUPPORTED, WRITTEN or
\* VERIFICATION_FAILED, or, when the write of the record fails, with the
\* error of that write and no record written.
C3_RunEndsInFourStatesOrWriteError ==
  /\ WrittenOnlyVerified
  /\ RunEnded => orch.state \in {"VALID", "UNSUPPORTED", "WRITTEN",
                                 "VERIFICATION_FAILED", "WRITE_ERROR"}
  /\ orch.state = "WRITE_ERROR" =>
       /\ outcome.kind = "threw"
       /\ ~orch.written
       /\ hist.written = None
  /\ orch.state = "WRITTEN" => file = LocationFileContents(InstallLocation)

\* A run that downloaded, verified and wrote the record.
C3_Witness ==
  /\ orch.state = "WRITTEN"
  /\ orch.written
  /\ orch.checksumOk /\ orch.versionOk

====
